---------------------------- MODULE Spec2Model ----------------------------
(***************************************************************************)
(* Monthly, per-device top-20 leaderboard worker (src/src/index.ts) over a *)
(* Redis sorted-set store.                                                 *)
(*                                                                         *)
(* Strings are sequences of one-character strings.  The store is a         *)
(* function key -> sorted set whose domain is the set of keys that exist.  *)
(***************************************************************************)
EXTENDS Integers, Sequences, FiniteSets, TLC

VARIABLES
    store,      \* Redis: key -> sorted set
    date,       \* wall clock, calendar part: [year, month]
    now,        \* wall clock, Date.now() in milliseconds
    writes,     \* number of ZADDs the store has applied since Init
    chk,        \* the check-score request in flight between its two reads
    resp,       \* the response the last step delivered, NoResp if none
    subs,       \* history: every submission the store has applied
    lastSub,    \* history: what the last applied submission found
    sanIn,      \* name under sanitization (SpecSanitize)
    sanOut,     \* cleanName of sanIn
    sanAgain,   \* cleanName of sanOut
    sanPc       \* position of the sanitization run

vars == <<store, date, now, writes, chk, resp, subs, lastSub,
          sanIn, sanOut, sanAgain, sanPc>>

-----------------------------------------------------------------------------
(* Bounds of the model *)

\* ZADDs applied after Init
MaxWrites == 1
\* clock steps (milliseconds or month changes) after Init
MaxSteps == 1
\* longest name fed to the sanitizer in SpecSanitize
MaxNameLen == 6

-----------------------------------------------------------------------------
(* Characters and strings *)

DigitChars == <<"0", "1", "2", "3", "4", "5", "6", "7", "8", "9">>

\* UTF-16 code units of the characters the model uses
CharCode ==
    [c \in {"!", "-", "0", "1", "2", "3", "4", "5", "6", "7", "8", "9", ":",
            "Z", "a", "b", "s", "x"} |->
        CASE c = "!" -> 33
          [] c = "-" -> 45
          [] c = "0" -> 48 [] c = "1" -> 49 [] c = "2" -> 50 [] c = "3" -> 51
          [] c = "4" -> 52 [] c = "5" -> 53 [] c = "6" -> 54 [] c = "7" -> 55
          [] c = "8" -> 56 [] c = "9" -> 57
          [] c = ":" -> 58
          [] c = "Z" -> 90
          [] c = "a" -> 97
          [] c = "b" -> 98
          [] c = "s" -> 115
          [] c = "x" -> 120]

IsDigit(c) == CharCode[c] \in 48..57

\* the complement of the class [^a-zA-Z0-9]
IsAlnum(c) == CharCode[c] \in (48..57) \cup (65..90) \cup (97..122)

\* String.prototype.substring(0, n)
Substring0(s, n) == SubSeq(s, 1, IF Len(s) < n THEN Len(s) ELSE n)

\* replace(/[^a-zA-Z0-9]/g, ''): delete every character outside the class
RECURSIVE StripNonAlnum(_)
StripNonAlnum(s) ==
    IF s = <<>> THEN <<>>
    ELSE IF IsAlnum(Head(s)) THEN <<Head(s)>> \o StripNonAlnum(Tail(s))
         ELSE StripNonAlnum(Tail(s))

\* the same replace without the g flag: only the first match is deleted
RECURSIVE StripFirstNonAlnum(_)
StripFirstNonAlnum(s) ==
    IF s = <<>> THEN <<>>
    ELSE IF IsAlnum(Head(s)) THEN <<Head(s)>> \o StripFirstNonAlnum(Tail(s))
         ELSE Tail(s)

NameLimit == 5

cleanNameNoG(name) == StripFirstNonAlnum(Substring0(name, NameLimit))

\* name.toString().substring(0, 5).replace(/[^a-zA-Z0-9]/g, '')
cleanName(name) == StripNonAlnum(Substring0(name, NameLimit))

\* decimal digits of a natural number, as `${n}` prints it
RECURSIVE Digits(_)
Digits(n) ==
    IF n < 10 THEN <<DigitChars[n + 1]>>
    ELSE Digits(n \div 10) \o <<DigitChars[(n % 10) + 1]>>

\* the member without its timestamp
MemberNoTimestamp(clean, ms) == clean \o <<":">>

\* `${cleanName}:${Date.now()}`
Member(clean, ms) == clean \o <<":">> \o Digits(ms)

\* member.split(':')[0]: the text before the first ':'
RECURSIVE SplitHead(_)
SplitHead(s) ==
    IF s = <<>> \/ Head(s) = ":" THEN <<>>
    ELSE <<Head(s)>> \o SplitHead(Tail(s))

\* the longest prefix of decimal digits, as a number (acc = value so far)
RECURSIVE DigitPrefix(_, _)
DigitPrefix(s, acc) ==
    IF s = <<>> \/ ~IsDigit(Head(s)) THEN acc
    ELSE DigitPrefix(Tail(s), 10 * acc + (CharCode[Head(s)] - 48))

\* parseInt(s): optional sign, then the longest run of digits; NaN if none
ParseInt(s) ==
    LET neg == s # <<>> /\ Head(s) = "-"
        body == IF neg THEN Tail(s) ELSE s
    IN  IF body = <<>> \/ ~IsDigit(Head(body))
        THEN [nan |-> TRUE, val |-> 0]
        ELSE [nan |-> FALSE,
              val |-> IF neg THEN 0 - DigitPrefix(body, 0) ELSE DigitPrefix(body, 0)]

\* a >= b in place of a > b
NumGe(a, b) == ~a.nan /\ a.val >= b

\* a > b on JavaScript numbers: false as soon as a is NaN (b is a stored score)
NumGt(a, b) == ~a.nan /\ a.val > b

-----------------------------------------------------------------------------
(* The sorted-set store, as the worker uses it *)

TopN == 20
LastRank == 19

\* A sorted set is the sequence of its (member, score) pairs in the order
\* Redis keeps them: ascending score, then ascending member.
EmptyZ == <<>>

\* the sorted set at key; a key that does not exist reads as the empty set
Z(st, key) == IF key \in DOMAIN st THEN st[key] ELSE EmptyZ

Members(z) == {z[i][1] : i \in 1..Len(z)}

\* byte-wise string order (a proper prefix sorts first)
RECURSIVE LexLess(_, _)
LexLess(s, t) ==
    IF t = <<>> THEN FALSE
    ELSE IF s = <<>> THEN TRUE
    ELSE IF Head(s) = Head(t) THEN LexLess(Tail(s), Tail(t))
    ELSE CharCode[Head(s)] < CharCode[Head(t)]

\* the order of a sorted set on (member, score) pairs
PairLess(p, q) ==
    \/ p[2] < q[2]
    \/ p[2] = q[2] /\ LexLess(p[1], q[1])

\* the flat reply [member, score, member, score, ...] of a range without
\* rev: positions start..stop counted from the lowest score
ZRangeAsc(z, start, stop) ==
    LET n    == Len(z)
        last == IF stop < n - 1 THEN stop ELSE n - 1
        k    == IF last < start THEN 0 ELSE last - start + 1
    IN  [j \in 1..(2 * k) |->
            z[start + ((j + 1) \div 2)][IF j % 2 = 1 THEN 1 ELSE 2]]

\* redis.zrange(key, start, stop, { withScores: true, rev: true }): the flat
\* reply for positions start..stop counted from the highest score
ZRangeRev(z, start, stop) ==
    LET n    == Len(z)
        last == IF stop < n - 1 THEN stop ELSE n - 1
        k    == IF last < start THEN 0 ELSE last - start + 1
    IN  [j \in 1..(2 * k) |->
            z[n - (start + ((j + 1) \div 2) - 1)][IF j % 2 = 1 THEN 1 ELSE 2]]

\* redis.zcount(key, '-inf', '+inf')
ZCount(z) == Len(z)

\* the sorted set with the pair p put in, any older pair of its member gone
ZInsert(z, p) ==
    LET IsOther(q) == q[1] # p[1]
        rest == SelectSeq(z, IsOther)
        k    == Cardinality({i \in 1..Len(rest) : PairLess(rest[i], p)})
    IN  SubSeq(rest, 1, k) \o <<p>> \o SubSeq(rest, k + 1, Len(rest))

\* redis.zadd(key, { score, member }): insert, or replace the member's score
ZAdd(st, key, score, member) ==
    [k \in DOMAIN st \cup {key} |->
        IF k = key THEN ZInsert(Z(st, key), <<member, score>>) ELSE st[k]]

-----------------------------------------------------------------------------
(* Helpers of the worker *)

\* every device type lands in one partition
getLeaderboardKeyShared(d, deviceType) ==
    <<"leaderboard", d.year, d.month, "desktop">>

\* `leaderboard:${year}-${month}:${deviceType}` at date d
getLeaderboardKey(d, deviceType) ==
    <<"leaderboard", d.year, d.month, deviceType>>

\* the whole member as the name: the split is forgotten
formatLeaderboardWholeMember(entries) ==
    [i \in 1..(Len(entries) \div 2) |->
        [name |-> entries[2 * i - 1], score |-> entries[2 * i]]]

\* one {name, score} per (member, score) pair of the flat reply
formatLeaderboard(entries) ==
    [i \in 1..(Len(entries) \div 2) |->
        [name |-> SplitHead(entries[2 * i - 1]), score |-> entries[2 * i]]]

\* url.searchParams.get('deviceType') === 'mobile' ? 'mobile' : 'desktop'
SelectDevice(param) ==
    IF param.has /\ param.val = "mobile" THEN "mobile" ELSE "desktop"

\* parseInt(url.searchParams.get('score') || '0')
ScoreOf(param) ==
    ParseInt(IF ~param.has \/ param.val = <<>> THEN <<"0">> ELSE param.val)

-----------------------------------------------------------------------------
(* Requests *)

Absent == [has |-> FALSE, val |-> <<>>]
Given(v) == [has |-> TRUE, val |-> v]
NoDevice == [has |-> FALSE, val |-> ""]

Undefined == [tag |-> "undefined", val |-> <<>>]
Str(s) == [tag |-> "string", val |-> s]
Num(n) == [tag |-> "number", val |-> n]
NotANumber == [tag |-> "string", val |-> 0]
NoScore == [tag |-> "undefined", val |-> 0]

\* names a submit body carries: none, '', 'a', ':b', '!!!!!a'
Names ==
    {Undefined, Str(<<>>), Str(<<"a">>), Str(<<":", "b">>),
     Str(<<"!", "!", "!", "!", "!", "a">>)}

GoodNames == {Str(<<"a">>), Str(<<":", "b">>)}

\* scores a submit body carries: none, a string, or a number
Scores == {0 - 1, 200}
ScoreFields == {NoScore, NotANumber} \cup {Num(n) : n \in Scores}

DeviceTypes == {"mobile", "desktop"}
DeviceFields == DeviceTypes \cup {"tablet", "undefined"}

\* submit bodies: the well-formed ones for desktop, two for mobile, and the
\* malformed ones that differ from { name: 'a', score: 200, deviceType:
\* 'desktop' } in one field
Bodies ==
    {[name |-> n, score |-> Num(v), deviceType |-> "desktop"] :
        n \in GoodNames, v \in Scores}
    \cup {[name |-> Str(<<"a">>), score |-> Num(200), deviceType |-> "mobile"],
          [name |-> Str(<<":", "b">>), score |-> Num(0 - 1), deviceType |-> "mobile"]}
    \cup {[name |-> n, score |-> Num(200), deviceType |-> "desktop"] : n \in Names}
    \cup {[name |-> Str(<<"a">>), score |-> v, deviceType |-> "desktop"] :
             v \in ScoreFields}
    \cup {[name |-> Str(<<"a">>), score |-> Num(200), deviceType |-> d] :
             d \in DeviceFields}

NoBody == [name |-> Undefined, score |-> NoScore, deviceType |-> "undefined"]

\* deviceType query parameters: absent, 'mobile', 'tablet'
DeviceParams == {NoDevice, [has |-> TRUE, val |-> "mobile"],
                 [has |-> TRUE, val |-> "tablet"]}

\* score query parameters: absent, '', '0', '81', '82', '-1', 'x', '82x'
ScoreParams ==
    {Absent, Given(<<>>), Given(<<"0">>), Given(<<"8", "1">>),
     Given(<<"8", "2">>), Given(<<"-", "1">>), Given(<<"x">>),
     Given(<<"8", "2", "x">>)}

NoKey == <<"none", 0, 0, "">>

Idle == [pc |-> "idle", key |-> NoKey, scoreParam |-> Absent,
         deviceParam |-> NoDevice, disturbed |-> FALSE]

NoResp == [op |-> "none", status |-> 0, error |-> "", list |-> <<>>,
           qualifies |-> FALSE, key |-> NoKey, body |-> NoBody,
           scoreParam |-> Absent, deviceParam |-> NoDevice,
           undisturbed |-> TRUE]

NoSub == [key |-> NoKey, member |-> <<>>, score |-> 0, existed |-> FALSE,
          count |-> 0]

\* !name
Falsy(name) == name.tag = "undefined" \/ name.val = <<>>

\* the validation without its deviceType test
InvalidRequestNoDevice(body) ==
    \/ Falsy(body.name)
    \/ body.score.tag # "number"

\* !name || typeof score !== 'number' || !['mobile','desktop'].includes(deviceType)
InvalidRequest(body) ==
    \/ Falsy(body.name)
    \/ body.score.tag # "number"
    \/ body.deviceType \notin {"mobile", "desktop"}

-----------------------------------------------------------------------------
(* Initial states: the store outlives the worker, so a run starts on what  *)
(* earlier submissions of the month left in the desktop partition, the     *)
(* last of them within the current millisecond                             *)

Ladder(n) == [k \in 1..n |-> 100 - (k - 1)]
Low(n) == [k \in 1..n |-> 0 - 1]

\* score lists of the earlier submissions: none; 100, 99, ... ; -1, -1, ...
Seeds == {<<>>, Ladder(TopN), Low(TopN - 1), Low(TopN)}

StartDate == [year |-> 2025, month |-> 12]
StartMs == TopN

\* earlier submission k of n was named 'a'; the n-th arrived at StartMs
SeedMember(k, n) == Member(<<"a">>, StartMs - (n - k))

SeedKey == getLeaderboardKey(StartDate, "desktop")

\* the sorted set after the first k earlier submissions
RECURSIVE SeedZ(_, _)
SeedZ(seed, k) ==
    IF k = 0 THEN EmptyZ
    ELSE ZInsert(SeedZ(seed, k - 1), <<SeedMember(k, Len(seed)), seed[k]>>)

SeedStore(seed) ==
    IF seed = <<>> THEN [k \in {} |-> EmptyZ]
    ELSE [k \in {SeedKey} |-> SeedZ(seed, Len(seed))]

SeedSubs(seed) ==
    {[key |-> SeedKey, name |-> <<"a">>, ms |-> StartMs - (Len(seed) - i),
      member |-> SeedMember(i, Len(seed)), score |-> seed[i]] :
        i \in 1..Len(seed)}

sanVars == <<sanIn, sanOut, sanAgain, sanPc>>

SanOff ==
    /\ sanIn = <<>>
    /\ sanOut = <<>>
    /\ sanAgain = <<>>
    /\ sanPc = "off"

Init ==
    /\ \E seed \in Seeds :
          /\ store = SeedStore(seed)
          /\ subs = SeedSubs(seed)
    /\ date = StartDate
    /\ now = StartMs
    /\ writes = 0
    /\ chk = Idle
    /\ resp = NoResp
    /\ lastSub = NoSub
    /\ SanOff

-----------------------------------------------------------------------------
(* The clock *)

\* a millisecond passes
Tick ==
    /\ now < StartMs + MaxSteps
    /\ now' = now + 1
    /\ resp' = NoResp
    /\ UNCHANGED <<store, date, writes, chk, subs, lastSub, sanVars>>

\* the calendar month changes
NextMonth ==
    /\ now < StartMs + MaxSteps
    /\ now' = now + 1
    /\ date' = IF date.month = 12
               THEN [year |-> date.year + 1, month |-> 1]
               ELSE [year |-> date.year, month |-> date.month + 1]
    /\ resp' = NoResp
    /\ UNCHANGED <<store, writes, chk, subs, lastSub, sanVars>>

-----------------------------------------------------------------------------
(* POST /api/score *)

Reply(op, status, error) ==
    [NoResp EXCEPT !.op = op, !.status = status, !.error = error]

\* the request leaves the store alone
NoWrite == UNCHANGED <<store, writes, chk, subs, lastSub>>

\* await redis.zadd(key, { score, member }) answers
Applied(key, name, member, score) ==
    /\ writes < MaxWrites
    /\ writes' = writes + 1
    /\ store' = ZAdd(store, key, score, member)
    /\ subs' = subs \cup {[key |-> key, name |-> name, ms |-> now,
                           member |-> member, score |-> score]}
    /\ lastSub' = [key |-> key, member |-> member, score |-> score,
                   existed |-> member \in Members(Z(store, key)),
                   count |-> ZCount(Z(store, key))]
    /\ chk' = IF chk.pc = "count" /\ chk.key = key
              THEN [chk EXCEPT !.disturbed = TRUE]
              ELSE chk

\* the handler on a body that request.json() delivered; the ZADD answers
SubmitBody(body) ==
    LET clean  == cleanName(body.name.val)
        member == Member(clean, now)
        key    == getLeaderboardKey(date, body.deviceType)
        r(status, error) ==
            [Reply("submit", status, error) EXCEPT !.body = body]
    IN  IF InvalidRequest(body)
        THEN /\ resp' = r(400, "Invalid request")
             /\ NoWrite
        ELSE IF clean = <<>>
        THEN /\ resp' = r(400, "Invalid name")
             /\ NoWrite
        ELSE /\ Applied(key, body.name.val, member, body.score.val)
             /\ resp' = [r(200, "") EXCEPT !.key = key]

SubmitScore ==
    /\ \E body \in Bodies : SubmitBody(body)
    /\ UNCHANGED <<date, now, sanVars>>

\* the ZADD of a well-formed submission throws
SubmitStoreError ==
    /\ \E body \in Bodies : ~InvalidRequest(body) /\ cleanName(body.name.val) # <<>>
    /\ resp' = Reply("submit", 500, "Server error processing score submission.")
    /\ NoWrite
    /\ UNCHANGED <<date, now, sanVars>>

\* request.json() throws, or the body is null and cannot be destructured
SubmitUnreadable ==
    /\ resp' = Reply("submit", 500, "Server error processing score submission.")
    /\ NoWrite
    /\ UNCHANGED <<date, now, sanVars>>

-----------------------------------------------------------------------------
(* GET /api/leaderboard *)

GetLeaderboard ==
    /\ \E param \in DeviceParams :
          LET key == getLeaderboardKey(date, SelectDevice(param))
          IN  \E leaderboardData \in {ZRangeRev(Z(store, key), 0, LastRank)} :
                 resp' = [Reply("leaderboard", 200, "") EXCEPT
                             !.key = key, !.deviceParam = param,
                             !.list = formatLeaderboard(leaderboardData)]
    /\ NoWrite
    /\ UNCHANGED <<date, now, sanVars>>

\* the ZRANGE of a leaderboard fetch throws
GetLeaderboardStoreError ==
    /\ resp' = Reply("leaderboard", 500, "Failed to load leaderboard.")
    /\ NoWrite
    /\ UNCHANGED <<date, now, sanVars>>

-----------------------------------------------------------------------------
(* GET /api/check-score *)

CheckReply(c, qualifies) ==
    [Reply("check", 200, "") EXCEPT
        !.key = c.key, !.scoreParam = c.scoreParam,
        !.deviceParam = c.deviceParam, !.qualifies = qualifies,
        !.undisturbed = ~c.disturbed]

CheckFailed == Reply("check", 500, "Failed to check score qualification.")

\* first read: the entry at rank 19; the answer, when there is such an entry
CheckScoreLookup ==
    /\ chk.pc = "idle"
    /\ \E param \in DeviceParams :
          LET key == getLeaderboardKey(date, SelectDevice(param))
          IN  \E twentiethScoreEntry \in
                    {ZRangeRev(Z(store, key), LastRank, LastRank)} :
                 \E scoreParam \in ScoreParams :
                    LET score == ScoreOf(scoreParam)
                        c == [Idle EXCEPT !.key = key, !.scoreParam = scoreParam,
                                          !.deviceParam = param]
                    IN  IF Len(twentiethScoreEntry) = 0
                        THEN /\ chk' = [c EXCEPT !.pc = "count"]
                             /\ resp' = NoResp
                        ELSE /\ resp' = CheckReply(c,
                                           NumGt(score, twentiethScoreEntry[2]))
                             /\ chk' = Idle
    /\ UNCHANGED <<store, writes, subs, lastSub, date, now, sanVars>>

\* the second read, with the candidate put into the partition to be ranked
CheckScoreCountWriting ==
    /\ chk.pc = "count"
    /\ resp' = CheckReply(chk, ZCount(Z(store, chk.key)) < TopN)
    /\ store' = ZAdd(store, chk.key, ScoreOf(chk.scoreParam).val, <<"x">>)
    /\ chk' = Idle
    /\ UNCHANGED <<writes, subs, lastSub, date, now, sanVars>>

\* the second read, with the count compared to 19
CheckScoreCountOffByOne ==
    /\ chk.pc = "count"
    /\ resp' = CheckReply(chk, ZCount(Z(store, chk.key)) < LastRank)
    /\ chk' = Idle
    /\ UNCHANGED <<store, writes, subs, lastSub, date, now, sanVars>>

\* second read, when rank 19 was empty: the count of the partition
CheckScoreCount ==
    /\ chk.pc = "count"
    /\ resp' = CheckReply(chk, ZCount(Z(store, chk.key)) < TopN)
    /\ chk' = Idle
    /\ UNCHANGED <<store, writes, subs, lastSub, date, now, sanVars>>

\* the ZRANGE or the ZCOUNT of a check-score request throws
CheckScoreStoreError ==
    /\ resp' = CheckFailed
    /\ chk' = Idle
    /\ UNCHANGED <<store, writes, subs, lastSub, date, now, sanVars>>

-----------------------------------------------------------------------------
(* Specifications *)

\* submissions and leaderboard fetches as the clock advances
Next ==
    \/ Tick
    \/ NextMonth
    \/ SubmitScore
    \/ SubmitStoreError
    \/ SubmitUnreadable
    \/ GetLeaderboard
    \/ GetLeaderboardStoreError

Spec == Init /\ [][Next]_vars

\* check-score requests, with submissions landing between their two reads
NextCheck ==
    \/ SubmitScore
    \/ CheckScoreLookup
    \/ CheckScoreCount
    \/ CheckScoreStoreError

SpecCheck == Init /\ [][NextCheck]_vars

\* one name, sanitized, sanitized again, then submitted to an empty store
NameChars == {"a", "0", "!", ":"}

NamesUpTo(n) == UNION {[1..l -> NameChars] : l \in 0..n}

InitSanitize ==
    /\ store = SeedStore(<<>>)
    /\ subs = {}
    /\ date = StartDate
    /\ now = StartMs
    /\ writes = 0
    /\ chk = Idle
    /\ resp = NoResp
    /\ lastSub = NoSub
    /\ sanIn \in NamesUpTo(MaxNameLen)
    /\ sanOut = <<>>
    /\ sanAgain = <<>>
    /\ sanPc = "name"

reqVars == <<store, date, now, writes, chk, resp, subs, lastSub>>

SanitizeName ==
    /\ sanPc = "name"
    /\ sanOut' = cleanName(sanIn)
    /\ sanPc' = "clean"
    /\ UNCHANGED <<sanIn, sanAgain, reqVars>>

SanitizeAgain ==
    /\ sanPc = "clean"
    /\ sanAgain' = cleanName(sanOut)
    /\ sanPc' = "again"
    /\ UNCHANGED <<sanIn, sanOut, reqVars>>

\* POST /api/score with { name: sanIn, score: 200, deviceType: 'desktop' }
SubmitNamed ==
    /\ sanPc = "again"
    /\ SubmitBody([name |-> Str(sanIn), score |-> Num(200),
                   deviceType |-> "desktop"])
    /\ sanPc' = "submitted"
    /\ UNCHANGED <<date, now, sanIn, sanOut, sanAgain>>

NextSanitize ==
    \/ SanitizeName
    \/ SanitizeAgain
    \/ SubmitNamed

SpecSanitize == InitSanitize /\ [][NextSanitize]_vars

-----------------------------------------------------------------------------
(* Notions the properties are stated in *)

LettersAndDigits ==
    {"0", "1", "2", "3", "4", "5", "6", "7", "8", "9", "Z", "a", "b", "s", "x"}

\* the first 5 characters of a name, without what is no letter or digit
Sanitized(name) ==
    LET IsKept(c) == c \in LettersAndDigits
    IN  SelectSeq(SubSeq(name, 1, IF Len(name) < 5 THEN Len(name) ELSE 5), IsKept)

\* the partition a deviceType query parameter selects at the current date
Selected(param) ==
    <<"leaderboard", date.year, date.month,
      IF param = [has |-> TRUE, val |-> "mobile"] THEN "mobile" ELSE "desktop">>

\* the scores of a partition's members, one element per member
ScoreBag(z) == {<<i, z[i][2]>> : i \in 1..Len(z)}
AtLeast(z, v) == Cardinality({e \in ScoreBag(z) : e[2] >= v})

\* the entries of a fetched list that equal entry e
Listed(list, e) == Cardinality({i \in 1..Len(list) : list[i] = e})

Fetched == resp.op = "leaderboard" /\ resp.status = 200

\* the step is an accepted submission
Accepted == writes' = writes + 1 /\ resp'.op = "submit" /\ resp'.status = 200

\* a step by which a submission with a body gets its reply
Answered == resp'.op = "submit" /\ resp' # resp /\ resp'.body \in Bodies

-----------------------------------------------------------------------------
(* C1 *)

\* C1 as claimed: after a fetch, every submission applied to the fetched
\* partition shows as an entry with its sanitized name and its score,
\* whatever else the partition holds
C1_EveryAcceptedIsListed ==
    Fetched =>
        \A s \in subs :
            s.key = resp.key =>
                Listed(resp.list, [name |-> Sanitized(s.name), score |-> s.score]) > 0

\* C1 amended: a fetch for the same device type and month returns an entry
\* with the sanitized name and the submitted score, provided the member still
\* carries that score (no later submission of the same sanitized name in the
\* same millisecond replaced it) and fewer than 20 other members of the
\* partition score at least as much
C1_ListedWhenInTop ==
    Fetched =>
        LET z == Z(store, resp.key)
        IN  \A s \in subs :
               (/\ s.key = resp.key
                /\ <<s.member, s.score>> \in {z[i] : i \in 1..Len(z)}
                /\ AtLeast(z, s.score) - 1 < 20)
               => Listed(resp.list, [name |-> Sanitized(s.name), score |-> s.score]) > 0

\* a submission of ':b' with score 200 tops a fetch of a partition that
\* holds more than 20 members
C1_Witness ==
    /\ Fetched
    /\ Len(Z(store, resp.key)) > 20
    /\ \E s \in subs : s.key = resp.key /\ s.name = <<":", "b">> /\ s.score = 200
    /\ resp.list[1] = [name |-> <<"b">>, score |-> 200]

-----------------------------------------------------------------------------
(* C3 *)

\* what C3 calls a body that must be refused
Refusable(body) ==
    \/ body.name.tag = "undefined"
    \/ body.name.val = <<>>
    \/ body.score.tag # "number"
    \/ body.deviceType \notin {"mobile", "desktop"}
    \/ Sanitized(body.name.val) = <<>>

-----------------------------------------------------------------------------
(* C4 *)

\* C4: a fetch reads the partition its deviceType parameter selects (mobile
\* for 'mobile', desktop for anything else or nothing), and no entry of it
\* comes from the other device type: the list holds no more entries of a
\* name and score than submissions of that name and score were made with the
\* selected device type in the current month
C4_PartitionIsolation ==
    Fetched =>
        /\ resp.key = Selected(resp.deviceParam)
        /\ \A i \in 1..Len(resp.list) :
              Listed(resp.list, resp.list[i]) <=
                  Cardinality({s.member : s \in
                      {t \in subs : /\ t.key = Selected(resp.deviceParam)
                                    /\ Sanitized(t.name) = resp.list[i].name
                                    /\ t.score = resp.list[i].score}})

\* a fetch with deviceType=tablet returned desktop entries while the mobile
\* partition of the month holds a submission
C4_Witness ==
    /\ Fetched
    /\ resp.deviceParam = [has |-> TRUE, val |-> "tablet"]
    /\ Len(resp.list) > 0
    /\ \E s \in subs : s.key = <<"leaderboard", date.year, date.month, "mobile">>

-----------------------------------------------------------------------------
(* C5 *)

-----------------------------------------------------------------------------
(* C8 *)

\* an earlier submission to the partition, in the millisecond, under the
\* sanitized name of the body just accepted
SameNameSameMs(s) ==
    /\ s.key = resp'.key
    /\ s.ms = now
    /\ Sanitized(s.name) = Sanitized(resp'.body.name.val)

\* the accepted submission added one member and changed no earlier score
AddedOne ==
    LET before == Z(store, resp'.key)
        after  == Z(store', resp'.key)
    IN  /\ Len(after) = Len(before) + 1
        /\ \A i \in 1..Len(before) : before[i] \in {after[j] : j \in 1..Len(after)}

\* C8 as claimed: an accepted submission adds a member and changes no
\* earlier score unless an earlier submission had the same name and the same
\* score in the same millisecond
C8_OnlySameScoreCollides ==
    [][(Accepted /\ ~\E s \in subs :
                        SameNameSameMs(s) /\ s.score = resp'.body.score.val)
          => AddedOne]_vars

\* C8 amended: an accepted submission adds a member and changes no earlier
\* score unless an earlier submission to the partition had the same
\* sanitized name in the same millisecond, whatever its score; two
\* submissions of different sanitized names are two members even with the
\* same score in the same millisecond
C8_OnlySameNameSameMsCollides ==
    [][(Accepted /\ ~\E s \in subs : SameNameSameMs(s)) => AddedOne]_vars

\* an accepted submission became a new member next to a member of another
\* name with the same score and the same millisecond
C8_Witness ==
    /\ resp.op = "submit"
    /\ resp.status = 200
    /\ ~lastSub.existed
    /\ Len(Z(store, lastSub.key)) = lastSub.count + 1
    /\ \E s \in subs :
          /\ s.key = lastSub.key
          /\ s.ms = now
          /\ s.score = lastSub.score
          /\ Sanitized(s.name) # Sanitized(resp.body.name.val)

-----------------------------------------------------------------------------
(* Properties of check-score *)

Checked == resp.op = "check" /\ resp.status = 200

\* the score parameters that are integers, with the integer each denotes
IntegerParams ==
    {Given(<<"0">>), Given(<<"8", "1">>), Given(<<"8", "2">>), Given(<<"-", "1">>)}

Denoted(param) ==
    CASE param = Given(<<"0">>) -> 0
      [] param = Given(<<"8", "1">>) -> 81
      [] param = Given(<<"8", "2">>) -> 82
      [] param = Given(<<"-", "1">>) -> 0 - 1

\* candidate score s beats the 20th-best score of z: fewer than 20 members
\* score s or more
BeatsTwentieth(z, s) == AtLeast(z, s) < 20

\* what check-score is to answer for candidate s on partition z
ShouldQualify(z, s) == Len(z) < 20 \/ BeatsTwentieth(z, s)

-----------------------------------------------------------------------------
(* C2 *)

\* C2: with no write to the partition during the request, check-score for
\* an integer candidate s answers qualifies = true exactly when the partition
\* holds fewer than 20 entries or s is strictly greater than its 20th-best
\* score; with the 20 scores 100, ..., 81: false for 81, true for 82; with an
\* empty partition: true
C2_QualifiesIffRoomOrBeats ==
    (Checked /\ resp.undisturbed /\ resp.scoreParam \in IntegerParams) =>
        LET z == Z(store, resp.key)
            s == Denoted(resp.scoreParam)
        IN  /\ resp.qualifies = ShouldQualify(z, s)
            /\ (store = SeedStore(Ladder(TopN)) /\ resp.key = SeedKey /\ s = 81
                   => ~resp.qualifies)
            /\ (store = SeedStore(Ladder(TopN)) /\ resp.key = SeedKey /\ s = 82
                   => resp.qualifies)
            /\ (Len(z) = 0 => resp.qualifies)

\* 82 was found to qualify against the 20 scores 100, ..., 81
C2_Witness ==
    /\ Checked
    /\ resp.scoreParam = Given(<<"8", "2">>)
    /\ resp.qualifies
    /\ resp.key = SeedKey
    /\ store = SeedStore(Ladder(TopN))

-----------------------------------------------------------------------------
(* C6 *)

\* a step of a check-score request: its first read ends, or it is answered
CheckStep == chk'.pc # chk.pc \/ (resp'.op = "check" /\ resp' # resp)

\* C6: no step of a check-score request changes a partition, whatever the
\* candidate, the device type and the outcome (true, false or 500)
C6_CheckNeverWrites == [][CheckStep => store' = store]_vars

\* a check-score was answered after its count query, on the store of Init
C6_Witness ==
    /\ Checked
    /\ resp.qualifies
    /\ writes = 0
    /\ store = SeedStore(Low(TopN - 1))

-----------------------------------------------------------------------------
(* C7 *)

\* the score parameters that are absent or no integer: none, '', 'x', '82x'
NotIntegerParams ==
    {Absent, Given(<<>>), Given(<<"x">>), Given(<<"8", "2", "x">>)}

\* C7: a check-score whose score parameter is absent or no integer is
\* answered as the same request with score=0 is, and is never refused
C7_UnparseableIsZero ==
    /\ resp.op = "check" => resp.status \in {200, 500}
    /\ (Checked /\ resp.undisturbed /\ resp.scoreParam \in NotIntegerParams) =>
           resp.qualifies = ShouldQualify(Z(store, resp.key), 0)

-----------------------------------------------------------------------------
(* C10 *)

\* C10 as claimed: whatever submits land during the request, check-score
\* answers false for an integer candidate only if the partition, as it stands
\* at the last read, holds 20 entries and the candidate does not beat the
\* 20th-best of them
C10_FalseOnlyIfNotBeating ==
    (Checked /\ resp.scoreParam \in IntegerParams /\ ~resp.qualifies) =>
        ~ShouldQualify(Z(store, resp.key), Denoted(resp.scoreParam))

\* C10 amended: check-score answers false for an integer candidate only if
\* the partition holds at least 20 entries at the last read and either the
\* candidate does not beat the 20th-best of them, or a submit landed between
\* the rank-19 lookup, which found no entry, and the count query; in that
\* case the answer is false whatever the candidate
C10_FalseOnlyIfNotBeatingOrRaced ==
    (Checked /\ resp.scoreParam \in IntegerParams /\ ~resp.qualifies) =>
        /\ Len(Z(store, resp.key)) >= 20
        /\ \/ ~BeatsTwentieth(Z(store, resp.key), Denoted(resp.scoreParam))
           \/ ~resp.undisturbed

\* a submit landed between the two reads and the candidate 82, above every
\* score of the partition, was told it does not qualify
C10_Witness ==
    /\ Checked
    /\ ~resp.undisturbed
    /\ ~resp.qualifies
    /\ resp.scoreParam = Given(<<"8", "2">>)
    /\ \A i \in 1..Len(Z(store, resp.key)) : Z(store, resp.key)[i][2] < 82

-----------------------------------------------------------------------------
(* C9 *)

\* C9: sanitizing is idempotent; the result has at most 5 characters, all
\* letters or digits; a name with no letter or digit among its first 5
\* characters sanitizes to the empty string, and its submission is refused
\* with 400 and stores nothing
C9_SanitizeIdempotent ==
    /\ sanPc \in {"again", "submitted"} =>
          /\ sanAgain = sanOut
          /\ Len(sanOut) <= 5
          /\ \A i \in 1..Len(sanOut) : sanOut[i] \in LettersAndDigits
          /\ ((\A i \in 1..Len(sanIn) : i <= 5 => sanIn[i] \notin LettersAndDigits)
                 => sanOut = <<>>)
    /\ (sanPc = "submitted" /\ sanOut = <<>>) =>
          /\ resp.status = 400
          /\ DOMAIN store = {}

\* '!!!' sanitized to the empty string and was refused
C9_Witness ==
    /\ sanPc = "submitted"
    /\ sanIn = <<"!", "!", "!">>
    /\ sanOut = <<>>
    /\ resp.status = 400
    /\ resp.error = "Invalid name"

=============================================================================
